---- MODULE Spec2Model ----
(***************************************************************************)
(* Momentum Transcription Service (src/main.py): the POST /transcribe      *)
(* request pipeline.  Strings are TLA+ strings; an absent header or value  *)
(* (Python None) is the value None.  Times are integers in thousandths of  *)
(* a second.  A handler runs synchronously between suspension points, so   *)
(* one action models the handler up to its only await (audio.read()) and   *)
(* one models it from that await to the end.                               *)
(***************************************************************************)
EXTENDS Integers, Sequences, FiniteSets, TLC

VARIABLES API_KEY, files, pc, content_type, tmp_path, last

vars == <<API_KEY, files, pc, content_type, tmp_path, last>>

(* ---------------------------- bounds ---------------------------------- *)
NumReq == 2        \* request slots of the serving process
MaxTmp == 2        \* distinct random names tempfile may pick
MaxFiles == 2      \* capacity of the temporary directory, in files
MaxSegs == 2       \* segments the capability yields for one audio

Req == 1..NumReq

(* ---------------------------- strings --------------------------------- *)
None == "<None>"

Truthy(s) == s # None /\ s # ""

Whitespace == {" ", "\t", "\n"}

StartsWith(s, p) == Len(s) >= Len(p) /\ SubSeq(s, 1, Len(p)) = p

Contains(s, sub) ==
    \E i \in 1..(Len(s) - Len(sub) + 1) : SubSeq(s, i, i + Len(sub) - 1) = sub

RECURSIVE LStrip(_)
LStrip(s) ==
    IF Len(s) > 0 /\ SubSeq(s, 1, 1) \in Whitespace
    THEN LStrip(SubSeq(s, 2, Len(s)))
    ELSE s

RECURSIVE RStrip(_)
RStrip(s) ==
    IF Len(s) > 0 /\ SubSeq(s, Len(s), Len(s)) \in Whitespace
    THEN RStrip(SubSeq(s, 1, Len(s) - 1))
    ELSE s

Strip(s) == RStrip(LStrip(s))

RECURSIVE Join(_, _)
Join(sep, parts) ==
    IF Len(parts) = 0 THEN ""
    ELSE IF Len(parts) = 1 THEN parts[1]
    ELSE parts[1] \o sep \o Join(sep, Tail(parts))

\* round(x, 2) on thousandths: the nearest hundredth, ties to the even one
Round2(x) ==
    LET lo == (x \div 10) * 10
        r  == x % 10
    IN  IF r < 5 THEN lo
        ELSE IF r > 5 THEN lo + 10
        ELSE IF (lo \div 10) % 2 = 0 THEN lo ELSE lo + 10

(* ---------------------------- verify_auth ----------------------------- *)
AllowedOrigins == {"localhost", "dailymomentum.io", "vercel.app"}

\* as verify_auth, with the token taken from authorization[6:]
verify_auth_slice6(key, authorization, origin) ==
    IF ~Truthy(key) THEN TRUE
    ELSE IF /\ Truthy(authorization)
            /\ StartsWith(authorization, "Bearer ")
            /\ SubSeq(authorization, 7, Len(authorization)) = key
         THEN TRUE
    ELSE IF Truthy(origin) /\ \E allowed \in AllowedOrigins : Contains(origin, allowed)
         THEN TRUE
    ELSE FALSE

\* verify_auth(authorization, origin), key being the module's API_KEY
verify_auth(key, authorization, origin) ==
    IF ~Truthy(key) THEN TRUE
    ELSE IF /\ Truthy(authorization)
            /\ StartsWith(authorization, "Bearer ")
            /\ SubSeq(authorization, 8, Len(authorization)) = key
         THEN TRUE
    ELSE IF Truthy(origin) /\ \E allowed \in AllowedOrigins : Contains(origin, allowed)
         THEN TRUE
    ELSE FALSE

(* ---------------------------- request inputs -------------------------- *)
Keys == {None, "", "secret"}

Authorizations ==
    {None, "", "Bearer secret", "Bearer wrong", "secret", "bearer secret",
     "Bearer secretx", "Bearer "}

Origins ==
    {None, "", "http://localhost:5173", "https://dailymomentum.io",
     "https://app.vercel.app", "https://evil.example",
     "https://dailymomentum.io.evil.example"}

ContentTypes ==
    {None, "", "text/plain", "audio", "Audio/webm", "application/octet-stream",
     "audio/webm", "audio/wav", "audio/x-m4a"}

Bodies == {"", "RIFF"}

\* the (key, authorization, origin) triples for which verify_auth answers true
Authorized ==
    {<<t[1], t[2], t[3]>> :
        t \in {x \in Keys \X Authorizations \X Origins : verify_auth(x[1], x[2], x[3])}}

\* the (authorization, origin) pairs a request may carry for which
\* verify_auth answers b
Credentials(b) ==
    {c \in Authorizations \X Origins : (<<API_KEY, c[1], c[2]>> \in Authorized) = b}

(* ---------------------------- upload validation ----------------------- *)
\* as AcceptedType, with the content type compared without regard to case
AcceptedType_anycase(ct) ==
    StartsWith(ct, "audio/") \/ StartsWith(ct, "Audio/")
        \/ ct = "application/octet-stream"

\* as AcceptedType, with the prefix "audio" for "audio/"
AcceptedType_noslash(ct) == StartsWith(ct, "audio") \/ ct = "application/octet-stream"

AcceptedType(ct) == StartsWith(ct, "audio/") \/ ct = "application/octet-stream"

ext_map ==
    [t \in {"audio/webm", "audio/wav", "audio/wave", "audio/mp3", "audio/mpeg",
            "audio/ogg", "audio/flac", "application/octet-stream"} |->
        CASE t = "audio/webm" -> ".webm"
          [] t = "audio/wav" -> ".wav"
          [] t = "audio/wave" -> ".wav"
          [] t = "audio/mp3" -> ".mp3"
          [] t = "audio/mpeg" -> ".mp3"
          [] t = "audio/ogg" -> ".ogg"
          [] t = "audio/flac" -> ".flac"
          [] t = "application/octet-stream" -> ".webm"]

\* as Suffix, with ".bin" for a content type that ext_map does not have
Suffix_bin(ct) == IF ct \in DOMAIN ext_map THEN ext_map[ct] ELSE ".bin"

Suffix(ct) == IF ct \in DOMAIN ext_map THEN ext_map[ct] ELSE ".webm"

TmpNames == {ToString(i) : i \in 1..MaxTmp}

TmpName(n, suffix) == "/tmp/tmp" \o n \o suffix

\* as FreshNames, with a name taken whether or not the file exists
FreshNames_any(suffix) == TmpNames

\* the names NamedTemporaryFile may give a new file: it creates the file
\* exclusively, so never one that exists
FreshNames(suffix) == {n \in TmpNames : TmpName(n, suffix) \notin files}

(* ---------------------------- the capability -------------------------- *)
\* the i-th segment of an audio: time-ascending, with times that do not
\* fall on a hundredth
RawSegment(i, text) ==
    [start |-> (i - 1) * 1236, end |-> i * 1236 - 2, text |-> text]

SegmentTexts == {"hello ", " world", " \t", None}

RawSegments(k) ==
    {[i \in 1..k |-> RawSegment(i, t[i])] : t \in [1..k -> SegmentTexts]}

SegmentSeqs == UNION {RawSegments(k) : k \in 0..MaxSegs}

NoInfo == [some |-> FALSE, duration |-> 0, language |-> ""]

Infos == {NoInfo, [some |-> TRUE, duration |-> 2504, language |-> "en"]}

\* str(e) of an error of model.transcribe(tmp_path, ...)
ErrorKinds == {"decode", "internal"}

ErrStr(kind, path) ==
    IF kind = "decode"
    THEN "Invalid data found when processing input: '" \o path \o "'"
    ELSE "out of memory"

(* ---------------------------- aggregation ----------------------------- *)
text_parts(segments) == [i \in 1..Len(segments) |-> segments[i].text]

\* as segment_list, with the segments whose trimmed text is empty left out
segment_list_skipEmpty(segments) ==
    LET kept == SelectSeq(segments, LAMBDA sg : Strip(sg.text) # "")
    IN  [i \in 1..Len(kept) |->
            [start |-> Round2(kept[i].start), end |-> Round2(kept[i].end),
             text |-> Strip(kept[i].text)]]

segment_list(segments) ==
    [i \in 1..Len(segments) |->
        [start |-> Round2(segments[i].start), end |-> Round2(segments[i].end),
         text |-> Strip(segments[i].text)]]

full_text(segments) == Strip(Join(" ", text_parts(segments)))

\* segment.text.strip() raises on a text that is not a string
StripRaises(segments) == \E i \in 1..Len(segments) : segments[i].text = None

NoSpeechResult(info) ==
    [text |-> "", segments |-> <<>>,
     duration |-> IF info.some THEN info.duration ELSE 0,
     language |-> IF info.some THEN info.language ELSE "unknown",
     has_message |-> TRUE, message |-> "No speech detected in audio"]

SpeechResult(segments, info) ==
    [text |-> full_text(segments), segments |-> segment_list(segments),
     duration |-> IF info.some THEN Round2(info.duration) ELSE 0,
     language |-> IF info.some THEN info.language ELSE "unknown",
     has_message |-> FALSE, message |-> ""]

\* as Aggregate, with the emptiness test on the joined text before strip()
Aggregate_nostrip(segments, info) ==
    IF Join(" ", text_parts(segments)) = "" THEN NoSpeechResult(info)
    ELSE SpeechResult(segments, info)

Aggregate(segments, info) ==
    IF full_text(segments) = "" THEN NoSpeechResult(info)
    ELSE SpeechResult(segments, info)

(* ---------------------------- responses ------------------------------- *)
NoBody ==
    [text |-> "", segments |-> <<>>, duration |-> 0, language |-> "",
     has_message |-> FALSE, message |-> ""]

\* the record of the request whose handler ran last: what it was given, what
\* it did and how it ended (outcome "pending": it is suspended at the await)
NoRequest ==
    [req |-> 0, outcome |-> "none", status |-> 0, detail |-> "", body |-> NoBody,
     authorized |-> FALSE, accepted |-> FALSE, ctype |-> "", body_read |-> FALSE, body_len |-> 0,
     created |-> 0, tmp |-> None, unlinks |-> 0, unlink_err |-> "",
     transcribes |-> 0, arg |-> None,
     fault |-> "none", err_kind |-> "", cause |-> "", raw |-> <<>>,
     info |-> NoInfo]

HTTPException(rec, status_code, detail) ==
    [rec EXCEPT !.outcome = "response", !.status = status_code, !.detail = detail]

Unhandled(rec, name) ==
    [rec EXCEPT !.outcome = "exception", !.detail = name]

Ok200(rec, body) ==
    [rec EXCEPT !.outcome = "response", !.status = 200, !.body = body]

(* ---------------------------- specification --------------------------- *)
Init ==
    /\ API_KEY \in Keys
    /\ files = {}
    /\ pc = [r \in Req |-> "idle"]
    /\ content_type = [r \in Req |-> ""]
    /\ tmp_path = [r \in Req |-> None]
    /\ last = NoRequest

\* as Deny401, with the check made after the temporary file is created
Deny401_late(r) ==
    /\ \E n \in TmpNames :
          /\ TmpName(n, ".webm") \notin files
          /\ files' = files \cup {TmpName(n, ".webm")}
          /\ last' = HTTPException([NoRequest EXCEPT !.req = r, !.created = 1,
                                        !.tmp = TmpName(n, ".webm")], 401,
                 "Authentication required. Provide API key via Authorization: Bearer <key>")
    /\ UNCHANGED <<API_KEY, pc, content_type, tmp_path>>

\* verify_auth denies: the handler raises before anything else
Deny401(r) ==
    /\ last' = HTTPException([NoRequest EXCEPT !.req = r], 401,
         "Authentication required. Provide API key via Authorization: Bearer <key>")
    /\ UNCHANGED <<API_KEY, files, pc, content_type, tmp_path>>

\* transcribe_audio from its entry to the await on audio.read(), for an
\* upload whose content type is one of types
transcribe_audio_enter(r, types) ==
    /\ pc[r] = "idle"
    /\ \/ /\ Credentials(FALSE) # {}
          /\ Deny401(r)
       \/ /\ Credentials(TRUE) # {}
          /\ \E upload_type \in types :
                LET ct  == IF Truthy(upload_type) THEN upload_type ELSE ""
                    rec == [NoRequest EXCEPT !.req = r, !.authorized = TRUE,
                                !.accepted = AcceptedType(ct), !.ctype = ct]
                IN  IF ~AcceptedType(ct) THEN
                        /\ last' = HTTPException(rec, 400,
                             "Invalid content type: " \o ct \o ". Expected audio file.")
                        /\ UNCHANGED <<API_KEY, files, pc, content_type, tmp_path>>
                    ELSE
                        \/ /\ last' = Unhandled(rec, "OSError")
                           /\ UNCHANGED <<API_KEY, files, pc, content_type, tmp_path>>
                        \/ /\ Cardinality(files) < MaxFiles
                           /\ \E n \in FreshNames(Suffix(ct)) :
                                /\ files' = files \cup {TmpName(n, Suffix(ct))}
                                /\ tmp_path' = [tmp_path EXCEPT ![r] = TmpName(n, Suffix(ct))]
                           /\ pc' = [pc EXCEPT ![r] = "reading"]
                           /\ content_type' = [content_type EXCEPT ![r] = ct]
                           /\ last' = [rec EXCEPT !.outcome = "pending", !.created = 1,
                                                   !.tmp = tmp_path'[r]]
                           /\ UNCHANGED API_KEY

\* os.unlink(tmp_path) inside try/except: the file is deleted, or was
\* already gone, or the deletion fails and the file stays
UnlinkErrors == {"", "FileNotFoundError", "PermissionError"}

\* as Cleanup, without the try/except around os.unlink: its error leaves
\* the handler in place of the outcome
Cleanup_raises(r, rec, err) ==
    /\ files' = IF err = "PermissionError" THEN files ELSE files \ {tmp_path[r]}
    /\ last' = IF err = ""
               THEN [rec EXCEPT !.unlinks = rec.unlinks + 1]
               ELSE Unhandled([rec EXCEPT !.unlinks = rec.unlinks + 1,
                                          !.unlink_err = err], err)

\* as Cleanup, with the deletion after the return instead of in finally
Cleanup_onSuccessOnly(r, rec, err) ==
    IF rec.status = 200
    THEN /\ files' = IF err = "PermissionError" THEN files ELSE files \ {tmp_path[r]}
         /\ last' = [rec EXCEPT !.unlinks = rec.unlinks + 1, !.unlink_err = err]
    ELSE /\ files' = files
         /\ last' = rec

Cleanup(r, rec, err) ==
    /\ files' = IF err = "PermissionError" THEN files ELSE files \ {tmp_path[r]}
    /\ last' = [rec EXCEPT !.unlinks = rec.unlinks + 1, !.unlink_err = err]

\* as IsEmpty, with the test len(content) < 0
IsEmpty_negative(content) == Len(content) < 0

IsEmpty(content) == Len(content) = 0

\* as TryBlock, with a failed call of the model tried a second time
TryBlock_retry(rec, path, audios) ==
    {HTTPException([rec EXCEPT !.transcribes = 2, !.arg = path, !.fault = "call",
                               !.err_kind = k, !.cause = ErrStr(k, path)],
                   500, "Transcription failed: " \o ErrStr(k, path)) :
        k \in ErrorKinds}
    \cup
    {Ok200([rec EXCEPT !.transcribes = 1, !.arg = path, !.raw = sg[1],
                       !.info = sg[2]],
           Aggregate(sg[1], sg[2])) :
        sg \in {x \in audios : ~StripRaises(x[1])}}

\* the try block of transcribe_audio: rec with the outcome of the block, for
\* each behaviour of the capability (audios: the results it may return)
TryBlock(rec, path, audios) ==
    {HTTPException([rec EXCEPT !.transcribes = 1, !.arg = path, !.fault = f,
                               !.err_kind = k,
                               !.cause = ErrStr(k, path)],
                   500, "Transcription failed: " \o ErrStr(k, path)) :
        k \in ErrorKinds, f \in {"call", "iter"}}
    \cup
    {HTTPException([rec EXCEPT !.transcribes = 1, !.arg = path, !.fault = "agg",
                        !.cause = "'NoneType' object has no attribute 'strip'"],
                   500, "Transcription failed: "
                          \o "'NoneType' object has no attribute 'strip'") :
        sg \in {x \in audios : StripRaises(x[1])}}
    \cup
    {Ok200([rec EXCEPT !.transcribes = 1, !.arg = path, !.raw = sg[1],
                       !.info = sg[2]],
           Aggregate(sg[1], sg[2])) :
        sg \in {x \in audios : ~StripRaises(x[1])}}

\* transcribe_audio from the await on audio.read() to its end
transcribe_audio_resume(r, audios) ==
    /\ pc[r] = "reading"
    /\ pc' = [pc EXCEPT ![r] = "idle"]
    /\ content_type' = [content_type EXCEPT ![r] = ""]
    /\ tmp_path' = [tmp_path EXCEPT ![r] = None]
    /\ UNCHANGED API_KEY
    /\ LET rec == [NoRequest EXCEPT !.req = r, !.authorized = TRUE,
                      !.accepted = TRUE, !.ctype = content_type[r],
                      !.created = 1, !.tmp = tmp_path[r], !.body_read = TRUE]
       IN  \/ \E e \in {"OSError", "CancelledError"} :      \* the await raises
                /\ last' = Unhandled([rec EXCEPT !.body_len = -1], e)
                /\ UNCHANGED files
           \/ \E content \in Bodies :
                LET got == [rec EXCEPT !.body_len = Len(content)]
                IN  IF IsEmpty(content) THEN
                        /\ last' = HTTPException(got, 400, "Empty audio file")
                        /\ UNCHANGED files
                    ELSE
                        \/ /\ last' = Unhandled(got, "OSError")   \* tmp.write raises
                           /\ UNCHANGED files
                        \/ \E out \in TryBlock(got, tmp_path[r], audios),
                              err \in UnlinkErrors :
                                Cleanup(r, out, err)

\* the framework sends what the handler returned or raised
Completed == last.outcome \in {"response", "exception"}

respond ==
    /\ Completed
    /\ last' = NoRequest
    /\ UNCHANGED <<API_KEY, files, pc, content_type, tmp_path>>

\* one request at a time (a request enters once the one before is answered),
\* every behaviour of the capability
Audios == SegmentSeqs \X Infos

Next ==
    \/ ~Completed /\ transcribe_audio_enter(1, ContentTypes)
    \/ transcribe_audio_resume(1, Audios)
    \/ respond

Spec == Init /\ [][Next]_vars

(* ---------------------------- concurrent requests ------------------- *)
\* transcribe_audio from the await on audio.read() to the call of
\* model.transcribe
transcribe_audio_read(r) ==
    /\ pc[r] = "reading"
    /\ UNCHANGED <<API_KEY, files>>
    /\ LET rec == [NoRequest EXCEPT !.req = r, !.authorized = TRUE,
                      !.accepted = TRUE, !.ctype = content_type[r],
                      !.created = 1, !.tmp = tmp_path[r], !.body_read = TRUE]
           leave(out) ==
               /\ last' = out
               /\ pc' = [pc EXCEPT ![r] = "idle"]
               /\ content_type' = [content_type EXCEPT ![r] = ""]
               /\ tmp_path' = [tmp_path EXCEPT ![r] = None]
       IN  \/ \E e \in {"OSError", "CancelledError"} :      \* the await raises
                leave(Unhandled([rec EXCEPT !.body_len = -1], e))
           \/ \E content \in Bodies :
                LET got == [rec EXCEPT !.body_len = Len(content)]
                IN  IF IsEmpty(content) THEN
                        leave(HTTPException(got, 400, "Empty audio file"))
                    ELSE
                        \/ leave(Unhandled(got, "OSError"))    \* tmp.write raises
                        \/ /\ last' = [got EXCEPT !.outcome = "pending"]
                           /\ pc' = [pc EXCEPT ![r] = "transcribing"]
                           /\ UNCHANGED <<content_type, tmp_path>>

\* transcribe_audio from the call of model.transcribe to its end
transcribe_audio_finish(r, audios) ==
    /\ pc[r] = "transcribing"
    /\ pc' = [pc EXCEPT ![r] = "idle"]
    /\ content_type' = [content_type EXCEPT ![r] = ""]
    /\ tmp_path' = [tmp_path EXCEPT ![r] = None]
    /\ UNCHANGED API_KEY
    /\ \E content \in {b \in Bodies : ~IsEmpty(b)} :
         LET got == [NoRequest EXCEPT !.req = r, !.authorized = TRUE,
                        !.accepted = TRUE, !.ctype = content_type[r],
                        !.created = 1, !.tmp = tmp_path[r], !.body_read = TRUE,
                        !.body_len = Len(content)]
         IN  \E out \in TryBlock(got, tmp_path[r], audios), err \in UnlinkErrors :
                Cleanup(r, out, err)

\* as LoopFree, with the handler run on a thread of its own
LoopFree_threaded == TRUE

\* the handler is a coroutine of the one event loop: while a request is in
\* the synchronous part of its handler no other handler runs
LoopFree == \A q \in Req : pc[q] # "transcribing"

\* requests in flight together, a few content types and audios
ConcTypes == {"text/plain", "audio/wav", "application/octet-stream"}

ConcAudios ==
    (RawSegments(0) \cup {[i \in 1..1 |-> RawSegment(1, "hello ")]}) \X {NoInfo}

NextConc ==
    \E r \in Req :
        \/ LoopFree /\ transcribe_audio_enter(r, ConcTypes)
        \/ LoopFree /\ transcribe_audio_read(r)
        \/ transcribe_audio_finish(r, ConcAudios)

SpecConc == Init /\ [][NextConc]_vars

\* one request at a time, every content type of ext_map, one audio
UploadTypes == DOMAIN ext_map \cup {"audio/x-m4a", "audio/", "image/png"}

UploadAudios == RawSegments(0) \X {NoInfo}

NextUpload ==
    \/ ~Completed /\ transcribe_audio_enter(1, UploadTypes)
    \/ transcribe_audio_resume(1, UploadAudios)
    \/ respond

SpecUpload == Init /\ [][NextUpload]_vars

(* ---------------------------- properties ------------------------------ *)
\* C1: every request that created a temporary file has released it exactly
\* once when it completes, and the file no longer exists
C1_ReleasedExactlyOnce ==
    (Completed /\ last.created = 1) => (last.unlinks = 1 /\ last.tmp \notin files)

\* the authorization policy as stated, for the configured key
AuthPolicy(key, authorization, origin) ==
    \/ key = None
    \/ key = ""
    \/ authorization = "Bearer " \o key
    \/ /\ origin # None
       /\ \E sub \in {"localhost", "dailymomentum.io", "vercel.app"} :
            \E i \in 1..Len(origin) :
                /\ i + Len(sub) - 1 <= Len(origin)
                /\ SubSeq(origin, i, i + Len(sub) - 1) = sub

PolicyAuthorized ==
    {<<t[1], t[2], t[3]>> :
        t \in {x \in Keys \X Authorizations \X Origins : AuthPolicy(x[1], x[2], x[3])}}

\* C2: verify_auth answers true exactly when no key is configured (absent or
\* empty), or authorization is "Bearer " + key, or origin is present and
\* contains one of the three allowed substrings
C2_VerifyAuthPolicy ==
    \A authorization \in Authorizations, origin \in Origins :
        (<<API_KEY, authorization, origin>> \in Authorized)
            <=> (<<API_KEY, authorization, origin>> \in PolicyAuthorized)

C2_Witness ==
    /\ API_KEY = "secret"
    /\ last.outcome = "response" /\ last.status = 401
    /\ <<API_KEY, "Bearer wrong", "https://evil.example">> \notin Authorized
    /\ <<API_KEY, None, "https://dailymomentum.io">> \in Authorized
    /\ <<API_KEY, "Bearer secret", None>> \in Authorized

\* C3: an authorized request passes content-type validation exactly when its
\* type starts with "audio/" or is "application/octet-stream"; any other type
\* (a missing one reads as "") ends in 400 naming the type, with the body
\* unread, no temporary file and no call of the model
C3_ContentTypeValidation ==
    (last.outcome # "none" /\ last.authorized) =>
        IF \/ (Len(last.ctype) >= 6 /\ SubSeq(last.ctype, 1, 6) = "audio/")
           \/ last.ctype = "application/octet-stream"
        THEN ~(last.status = 400 /\ StartsWith(last.detail, "Invalid content type"))
        ELSE /\ last.outcome = "response"
             /\ last.status = 400
             /\ last.detail = "Invalid content type: " \o last.ctype
                                 \o ". Expected audio file."
             /\ ~last.body_read
             /\ last.created = 0 /\ last.tmp = None
             /\ last.transcribes = 0

C3_Witness ==
    /\ last.authorized /\ last.ctype = "text/plain"
    /\ last.status = 400
    /\ last.detail = "Invalid content type: text/plain. Expected audio file."

\* C4: a request whose body was read and has length zero ends in 400 "Empty
\* audio file", and the model is never called for it
C4_EmptyBodyRejected ==
    (Completed /\ last.body_read /\ last.body_len = 0) =>
        /\ last.outcome = "response"
        /\ last.status = 400
        /\ last.detail = "Empty audio file"
        /\ last.transcribes = 0

C4_Witness ==
    /\ last.authorized /\ last.accepted
    /\ last.body_read /\ last.body_len = 0
    /\ last.status = 400

\* C5 as stated: a failure of the capability (in the call or while the
\* segments are iterated) ends in 500 "Transcription failed: <cause>" and the
\* temporary file has been deleted when the response is produced
C5_FailureDeletesFile ==
    (Completed /\ last.fault \in {"call", "iter"}) =>
        /\ last.outcome = "response"
        /\ last.status = 500
        /\ last.detail = "Transcription failed: " \o last.cause
        /\ last.tmp \notin files

\* C5 amended: a failure of the capability ends in 500 "Transcription failed:
\* <cause>", after exactly one attempt to delete the temporary file; the file
\* no longer exists unless that attempt itself failed
C5_FailureReleasesFile ==
    (Completed /\ last.fault \in {"call", "iter"}) =>
        /\ last.outcome = "response"
        /\ last.status = 500
        /\ last.detail = "Transcription failed: " \o last.cause
        /\ last.unlinks = 1
        /\ (last.tmp \in files => last.unlink_err = "PermissionError")

C5_Witness ==
    /\ last.fault = "iter" /\ last.transcribes = 1
    /\ last.status = 500
    /\ last.detail = "Transcription failed: out of memory"
    /\ last.unlinks = 1 /\ last.tmp \notin files

\* C6: for a non-empty sequence of raw segments, the text of the 200 response
\* is the trimmed, single-space-joined concatenation of the segments' trimmed
\* texts, in order
C6_TextIsJoinOfTrimmed ==
    (last.outcome = "response" /\ last.status = 200 /\ Len(last.raw) > 0) =>
        last.body.text =
            Strip(Join(" ", [i \in 1..Len(last.raw) |-> Strip(last.raw[i].text)]))

WhitespaceOnly(s) == \A i \in 1..Len(s) : SubSeq(s, i, i) \in {" ", "\t", "\n"}

\* C7: in a 200 response text is empty iff segments is empty, the message
\* "No speech detected in audio" is present exactly then, that is exactly
\* when there is no raw segment or every raw segment is whitespace only, and
\* the no-speech response reports duration and language from info
C7_NoSpeechIffEmpty ==
    (last.outcome = "response" /\ last.status = 200) =>
        /\ (last.body.text = "") <=> (last.body.segments = <<>>)
        /\ last.body.has_message <=> (last.body.text = "")
        /\ last.body.has_message => last.body.message = "No speech detected in audio"
        /\ (last.body.text = "") <=>
              \A i \in 1..Len(last.raw) : WhitespaceOnly(last.raw[i].text)
        /\ (last.body.text = "" /\ last.info.some) =>
              /\ last.body.duration = last.info.duration
              /\ last.body.language = last.info.language

C7_Witness ==
    /\ last.status = 200
    /\ Len(last.raw) > 0
    /\ last.body.text = "" /\ last.body.segments = <<>>
    /\ last.body.has_message
    /\ last.info.some

\* C8: every failure of a request is translated by the handler into a 401,
\* 400 or 500 response with a detail message; none leaves it as an exception
C8_EveryFailureTranslated ==
    Completed =>
        /\ last.outcome = "response"
        /\ last.status \in {200, 400, 401, 500}
        /\ (last.status # 200 => last.detail # "")

\* C9: a request that verify_auth denies ends in 401 with the body unread,
\* no temporary file created and the model not called
C9_DenyBeforeResources ==
    /\ (last.outcome # "none" /\ ~last.authorized) =>
          /\ last.outcome = "response" /\ last.status = 401
          /\ ~last.body_read
          /\ last.created = 0 /\ last.tmp = None
          /\ last.transcribes = 0
    /\ last.status = 401 => (~last.authorized /\ Credentials(FALSE) # {})

C9_Witness ==
    /\ last.outcome = "response" /\ last.status = 401
    /\ ~last.authorized
    /\ <<"Bearer wrong", "https://evil.example">> \in Credentials(FALSE)
    /\ last.created = 0 /\ ~last.body_read

\* C10: the detail of a 500 response does not reveal the temporary path: it
\* does not contain it, and it is the same whatever name the file was given
C10_DetailHidesPath ==
    (last.outcome = "response" /\ last.status = 500) =>
        /\ ~Contains(last.detail, last.tmp)
        /\ last.fault \in {"call", "iter"} =>
             \A n \in TmpNames :
                last.detail = "Transcription failed: "
                    \o ErrStr(last.err_kind, TmpName(n, Suffix(last.ctype)))

\* C11: the temporary file is acquired only after the body has been read and
\* found non-empty: no request holds a temporary file while its body is
\* unread or known to be empty
C11_FileAfterNonEmptyBody ==
    /\ \A r \in Req : tmp_path[r] # None => pc[r] # "reading"
    /\ (last.outcome # "none" /\ last.created = 1) =>
          (last.body_read /\ last.body_len > 0)

\* C12: model.transcribe is called at most once per request, never again
\* after a failure, and only for a request that was authorized, had an
\* accepted content type and a non-empty body
C12_TranscribeAtMostOnce ==
    /\ last.transcribes \in {0, 1}
    /\ last.fault # "none" => last.transcribes = 1
    /\ last.transcribes = 1 =>
          /\ last.authorized
          /\ last.accepted
          /\ \/ (Len(last.ctype) >= 6 /\ SubSeq(last.ctype, 1, 6) = "audio/")
             \/ last.ctype = "application/octet-stream"
          /\ last.body_read /\ last.body_len > 0
          /\ last.arg = last.tmp

C12_Witness ==
    /\ last.fault = "call" /\ last.status = 500
    /\ last.transcribes = 1
    /\ last.body_len > 0

\* C13: a failure of the deletion of the temporary file (the file already
\* gone, or any other error) is swallowed: the response is the 200 result or
\* the 500 "Transcription failed: <cause>" that the request produces when the
\* deletion succeeds
C13_DeletionFailureSwallowed ==
    (Completed /\ last.unlinks > 0) =>
        /\ last.unlinks = 1
        /\ last.outcome = "response"
        /\ \/ /\ last.status = 200
              /\ last.fault = "none"
              /\ last.detail = ""
              /\ last.body = Aggregate(last.raw, last.info)
           \/ /\ last.status = 500
              /\ last.fault # "none"
              /\ last.detail = "Transcription failed: " \o last.cause
              /\ last.body = NoBody

C13_Witness ==
    /\ last.unlink_err = "PermissionError"
    /\ last.outcome = "response" /\ last.status = 500
    /\ last.detail = "Transcription failed: out of memory"
    /\ last.tmp \in files

\* C14: a request that is cancelled (an external timeout) after its temporary
\* file was created still releases the file
C14_CancelReleasesFile ==
    (last.outcome = "exception" /\ last.detail = "CancelledError"
        /\ last.created = 1) =>
        (last.unlinks = 1 /\ last.tmp \notin files)

\* C16: in every 200 response duration is info.duration rounded to 2 decimal
\* places (0 when info is absent), with speech and without
C16_DurationRounded ==
    (last.outcome = "response" /\ last.status = 200) =>
        IF last.info.some
        THEN /\ last.body.duration % 10 = 0
             /\ last.body.duration - last.info.duration \in -4..4
        ELSE last.body.duration = 0

\* C18: the checks have a fixed precedence: a request that verify_auth denies
\* gets 401 whatever else it carries, an authorized request with an
\* unaccepted content type gets the 400 "Invalid content type" whatever its
\* body, and 400 "Empty audio file" and 500 are given only to authorized
\* requests with an accepted content type
C18_CheckPrecedence ==
    LET ok_type == \/ (Len(last.ctype) >= 6 /\ SubSeq(last.ctype, 1, 6) = "audio/")
                   \/ last.ctype = "application/octet-stream"
    IN  Completed =>
        /\ ~last.authorized =>
              (last.status = 401 /\ ~last.body_read /\ last.ctype = "")
        /\ (last.authorized /\ ~ok_type) =>
              /\ last.status = 400
              /\ StartsWith(last.detail, "Invalid content type: ")
              /\ ~last.body_read
        /\ (last.status = 500 \/ last.detail = "Empty audio file") =>
              (last.authorized /\ ok_type)
        /\ last.status = 401 => ~last.authorized

C18_Witness ==
    /\ last.authorized /\ last.ctype = "Audio/webm"
    /\ last.status = 400
    /\ ~last.body_read

\* C20: when the 200 response has a non-empty text, segments has one entry
\* per raw segment, in the order of the capability, with the segment's
\* trimmed text and its start and end rounded to 2 decimal places
C20_OneEntryPerSegment ==
    (last.outcome = "response" /\ last.status = 200 /\ last.body.text # "") =>
        /\ Len(last.body.segments) = Len(last.raw)
        /\ \A i \in 1..Len(last.raw) :
              LET out == last.body.segments[i]
                  raw == last.raw[i]
              IN  /\ out.text = Strip(raw.text)
                  /\ out.start % 10 = 0 /\ out.start - raw.start \in -4..4
                  /\ out.end % 10 = 0 /\ out.end - raw.end \in -4..4

C20_Witness ==
    /\ last.status = 200 /\ last.body.text # ""
    /\ Len(last.raw) = 2
    /\ Strip(last.raw[1].text) = ""
    /\ last.body.segments[1].text = ""
    /\ last.body.segments[2].start = 1240

EndsWith(s, e) == Len(s) >= Len(e) /\ SubSeq(s, Len(s) - Len(e) + 1, Len(s)) = e

\* the suffix table as stated
TableSuffix(ct) ==
    CASE ct = "audio/webm" -> ".webm"
      [] ct \in {"audio/wav", "audio/wave"} -> ".wav"
      [] ct \in {"audio/mp3", "audio/mpeg"} -> ".mp3"
      [] ct = "audio/ogg" -> ".ogg"
      [] ct = "audio/flac" -> ".flac"
      [] OTHER -> ".webm"

\* C17: the temporary file of a request with an accepted content type has
\* the suffix of the table, and .webm for application/octet-stream and for
\* an accepted type that the table does not have
C17_SuffixFromTable ==
    /\ \A r \in Req :
          pc[r] = "reading" => EndsWith(tmp_path[r], TableSuffix(content_type[r]))
    /\ last.created = 1 =>
          \E n \in TmpNames : last.tmp = "/tmp/tmp" \o n \o TableSuffix(last.ctype)

C17_Witness ==
    /\ pc[1] = "reading"
    /\ content_type[1] = "audio/mpeg"
    /\ EndsWith(tmp_path[1], ".mp3")
    /\ \E p \in files : EndsWith(p, ".webm")

\* C15: under any interleaving of requests in flight, a request has at most
\* one temporary file, two requests never hold the same path, a file that a
\* request holds is deleted by no other request, and the path given to
\* model.transcribe is the request's own and no other request's
C15_FilesNotShared ==
    /\ \A r1, r2 \in Req :
          (r1 # r2 /\ tmp_path[r1] # None) => tmp_path[r1] # tmp_path[r2]
    /\ \A r \in Req : tmp_path[r] # None => tmp_path[r] \in files
    /\ last.created \in {0, 1}
    /\ last.transcribes > 0 =>
          /\ last.arg = last.tmp
          /\ \A r \in Req : tmp_path[r] # last.arg

C15_Witness ==
    /\ last.req = 1 /\ last.transcribes = 1
    /\ EndsWith(last.arg, ".webm") /\ last.arg \notin files
    /\ pc[2] = "reading"
    /\ EndsWith(tmp_path[2], ".webm") /\ tmp_path[2] \in files

\* C19: in one serving process at most one request is between the start of
\* model.transcribe and its response, and no other request takes a step in
\* between: requests interleave only at the await on the body
C19_TranscriptionsSerialized ==
    /\ Cardinality({r \in Req : pc[r] = "transcribing"}) <= 1
    /\ \A r \in Req :
          pc[r] = "transcribing" =>
              (last.req = r /\ last.outcome = "pending" /\ last.body_read)

C19_Witness ==
    /\ pc[1] = "transcribing"
    /\ pc[2] = "reading"
    /\ last.req = 1

====
